---- MODULE Spec2Model ----
(***************************************************************************)
(* State-machine model of src/code/main.py (sondehub-site-finder): the     *)
(* record loader, the area and proximity filters, the MGRS grid assigner,  *)
(* the density ranker, the centroid estimator and the geojson exporter,    *)
(* driven in the order of the __main__ block.                              *)
(*                                                                         *)
(* Coordinates are integers counted in ticks of 10^-8 degree, so that      *)
(* round(x, 7) and round(x, 6) are real roundings (to 10 and to 100        *)
(* ticks).  The two external libraries are abstracted on a model planet    *)
(* where one tick of latitude or longitude is one metre long:              *)
(*   geod.line_length  is the taxicab length of the line in metres,        *)
(*   mgrs.toMGRS       floors the position to a square cell of 10^(5-p) m, *)
(*   mgrs.toLatLon     gives the south-west corner of the cell.            *)
(* Fields the program only carries through (type, subtype, alt, datetime,  *)
(* launch_site) are left out of the records.                               *)
(***************************************************************************)
EXTENDS Integers, Sequences, FiniteSets, TLC

\* Longest input file (number of rows) the model reads.
MaxRows == 3

MGRS_PRECISION == 2

ROUND_COORD == 7

ROUND_BOUNDS == 6

DEFAULT_RADIUS == 3000

RECURSIVE Pow10(_)
Pow10(n) == IF n <= 0 THEN 1 ELSE 10 * Pow10(n - 1)

MGRS_SIZE == Pow10(5 - MGRS_PRECISION)

\* Ticks per unit of the last place kept by round(x, 7) and round(x, 6).
TickDecimals == ROUND_COORD + 1
Unit7 == Pow10(TickDecimals - ROUND_COORD)
Unit6 == Pow10(TickDecimals - ROUND_BOUNDS)
\* One degree, in ticks ("lat_min + 1" in the source).
Degree == Pow10(TickDecimals)

Abs(x) == IF x < 0 THEN 0 - x ELSE x

Min(a, b) == IF a <= b THEN a ELSE b

RECURSIVE Gcd(_, _)
Gcd(a, b) == IF b = 0 THEN a ELSE Gcd(b, a % b)

\* Python's round(num/den, d): the multiple of unit nearest to num/den,
\* halves going to the even multiple.  den > 0.
RoundDiv(num, den, unit) ==
  LET m == den * unit
      q == num \div m
      r == num % m
  IN  IF 2 * r < m THEN q * unit
      ELSE IF 2 * r > m THEN (q + 1) * unit
      ELSE IF q % 2 = 0 THEN q * unit ELSE (q + 1) * unit

\* size / var, a quotient of metres by metres-per-degree, in ticks.
DegreesToTicks(size, var) ==
  LET g == Gcd(Degree, var) IN (size * (Degree \div g)) \div (var \div g)

(***************************************************************************)
(* Optional values: <<>> is Python's None (or an absent key), <<v>> is v.  *)
(***************************************************************************)
None == <<>>
Some(v) == <<v>>

(***************************************************************************)
(* The raw entries a file may hold.  An entry is one document of the       *)
(* source index: its _id identifies it, several documents may carry the    *)
(* same serial, and the same document may be dumped twice.                 *)
(***************************************************************************)
Sample(lat, lon) == [lat |-> Some(lat), lon |-> Some(lon)]

Pool ==
  { [_id |-> "id1", serial |-> Some("A"), data |-> <<Sample(900, 900), Sample(104, 100)>>],
    [_id |-> "id2", serial |-> Some("A"), data |-> <<Sample(1200, 100)>>],
    [_id |-> "id3", serial |-> Some("B"), data |-> <<Sample(300, 350)>>],
    [_id |-> "id4", serial |-> Some("C"), data |-> <<Sample(300, 399)>>],
    [_id |-> "id5", serial |-> None,      data |-> <<Sample(100, 100)>>],
    [_id |-> "id6", serial |-> Some("D"), data |-> << >>],
    [_id |-> "id7", serial |-> Some("E"), data |-> <<[lat |-> None, lon |-> Some(100)]>>] }

RECURSIVE SeqsUpTo(_, _)
SeqsUpTo(S, n) ==
  IF n = 0 THEN { << >> }
  ELSE LET shorter == SeqsUpTo(S, n - 1)
       IN  shorter \cup { Append(s, x) : s \in { t \in shorter : Len(t) = n - 1 }, x \in S }

Files == SeqsUpTo(Pool, MaxRows)

(***************************************************************************)
(* Python dicts keep insertion order: a mapping is the sequence of its     *)
(* values, each value carrying its key.                                    *)
(***************************************************************************)
Keys(m) == { m[j].id : j \in 1..Len(m) }

HasKey(m, k) == \E j \in 1..Len(m) : m[j].id = k

Lookup(m, k) == m[CHOOSE j \in 1..Len(m) : m[j].id = k]

\* m[v.id] = v: a key already present keeps its place and takes the new value.
DictSet(m, v) ==
  IF HasKey(m, v.id)
  THEN [j \in 1..Len(m) |-> IF m[j].id = v.id THEN v ELSE m[j]]
  ELSE Append(m, v)

(***************************************************************************)
(* Prediction.__init__: the exception it raises, or "none".                *)
(***************************************************************************)
PredictionError(prediction) ==
  IF prediction.serial = None THEN "KeyError"
  ELSE IF Len(prediction.data) = 0 THEN "IndexError"
  ELSE IF prediction.data[Len(prediction.data)].lat = None THEN "KeyError"
  ELSE IF prediction.data[Len(prediction.data)].lon = None THEN "KeyError"
  ELSE "none"

Prediction(prediction) ==
  LET last == prediction.data[Len(prediction.data)]
  IN  [id     |-> prediction._id,
       serial |-> prediction.serial[1],
       lat    |-> last.lat[1],
       lon    |-> last.lon[1],
       grid   |-> None]

VARIABLES
  file,         \* the rows of the input file
  pc,           \* where the run is
  row,          \* read_predictions: rows consumed so far
  seen,         \* read_predictions: serials seen so far
  predictions,  \* the mapping bound to `predictions`
  call,         \* the arguments of the call in progress or last returned
  grid,         \* the grid table
  k,            \* assign_grid: records handled so far
  top,          \* the ranked cells returned by filter_grids
  t,            \* __main__: ranked cells exported so far
  geojson,      \* the features of the last generate_geojson call
  est,          \* the result of the last get_grid_estimated_launch call
  error         \* the exception that ended the run, or "none"

vars == <<file, pc, row, seen, predictions, call, grid, k, top, t, geojson, est, error>>

Init ==
  /\ file \in Files
  /\ pc = "read"
  /\ row = 0
  /\ seen = {}
  /\ predictions = << >>
  /\ call = [fn |-> "read_predictions"]
  /\ grid = << >>
  /\ k = 0
  /\ top = << >>
  /\ t = 0
  /\ geojson = << >>
  /\ est = None
  /\ error = "none"

(***************************************************************************)
(* read_predictions: one row of the file per step.                         *)
(***************************************************************************)
\* The row's serial is read first (line 73): an entry without one raises.
ReadRowNoSerial ==
  /\ pc = "read"
  /\ row < Len(file)
  /\ file[row + 1].serial = None
  /\ error' = "KeyError"
  /\ pc' = "crashed"
  /\ row' = row + 1
  /\ UNCHANGED <<file, seen, predictions, call, grid, k, top, t, geojson, est>>

\* ReadRowSeen without the `continue`: a repeated serial is loaded again.
ReadRowSeenLoaded ==
  /\ pc = "read"
  /\ row < Len(file)
  /\ file[row + 1].serial # None
  /\ file[row + 1].serial[1] \in seen
  /\ PredictionError(file[row + 1]) = "none"
  /\ predictions' = DictSet(predictions, Prediction(file[row + 1]))
  /\ row' = row + 1
  /\ UNCHANGED <<file, pc, seen, call, grid, k, top, t, geojson, est, error>>

\* A serial seen before: the row is skipped (lines 73-74).
ReadRowSeen ==
  /\ pc = "read"
  /\ row < Len(file)
  /\ file[row + 1].serial # None
  /\ file[row + 1].serial[1] \in seen
  /\ row' = row + 1
  /\ UNCHANGED <<file, pc, seen, predictions, call, grid, k, top, t, geojson, est, error>>

\* A new serial is recorded, then the record is built (lines 75-76); the
\* constructor raises on an empty sample list or a sample without lat/lon.
ReadRowMalformed ==
  /\ pc = "read"
  /\ row < Len(file)
  /\ file[row + 1].serial # None
  /\ file[row + 1].serial[1] \notin seen
  /\ PredictionError(file[row + 1]) # "none"
  /\ seen' = seen \cup {file[row + 1].serial[1]}
  /\ error' = PredictionError(file[row + 1])
  /\ pc' = "crashed"
  /\ row' = row + 1
  /\ UNCHANGED <<file, predictions, call, grid, k, top, t, geojson, est>>

ReadRowNew ==
  /\ pc = "read"
  /\ row < Len(file)
  /\ file[row + 1].serial # None
  /\ file[row + 1].serial[1] \notin seen
  /\ PredictionError(file[row + 1]) = "none"
  /\ seen' = seen \cup {file[row + 1].serial[1]}
  /\ predictions' = DictSet(predictions, Prediction(file[row + 1]))
  /\ row' = row + 1
  /\ UNCHANGED <<file, pc, call, grid, k, top, t, geojson, est, error>>

\* End of file: read_predictions returns (line 79).
ReadReturn ==
  /\ pc = "read"
  /\ row = Len(file)
  /\ pc' = "area"
  /\ UNCHANGED <<file, row, seen, predictions, call, grid, k, top, t, geojson, est, error>>

(***************************************************************************)
(* filter_predictions: records strictly inside an exclusion zone           *)
(* (lat_min, lat_max, lon_min, lon_max) are left out of the new mapping.   *)
(***************************************************************************)
Zone1 == <<290, 330, 340, 360>>
Zone2 == <<100, 400, 300, 399>>
AreaLists == { << >>, <<Zone1>>, <<Zone2>>, <<Zone1, Zone2>> }

\* InArea with the zone's edges counted as inside.
InAreaInclusive(prediction, area) ==
  /\ prediction.lat >= area[1]
  /\ prediction.lat <= area[2]
  /\ prediction.lon >= area[3]
  /\ prediction.lon <= area[4]

InArea(prediction, area) ==
  /\ prediction.lat > area[1]
  /\ prediction.lat < area[2]
  /\ prediction.lon > area[3]
  /\ prediction.lon < area[4]

filter_predictions(preds, areas) ==
  SelectSeq(preds, LAMBDA p : ~ \E j \in 1..Len(areas) : InArea(p, areas[j]))

\* InputAfterFilter for a filter that deletes from its argument in place.
InputAfterFilterInPlace(preds, filtered) == filtered

\* The mapping passed in, as the caller finds it after the call: both
\* filters fill a fresh dict and only read their argument.
InputAfterFilter(preds, filtered) == preds

FilterPredictions ==
  /\ pc = "area"
  /\ \E areas \in AreaLists :
       LET filtered == filter_predictions(predictions, areas)
       IN  /\ call' = [fn |-> "filter_predictions", areas |-> areas,
                       predictions |-> InputAfterFilter(predictions, filtered)]
           /\ predictions' = filtered
  /\ pc' = "proximity"
  /\ UNCHANGED <<file, row, seen, grid, k, top, t, geojson, est, error>>

(***************************************************************************)
(* filter_assigned_predictions: records nearer than radius to a site are   *)
(* left out of the new mapping.  A site's position is [lon, lat].          *)
(***************************************************************************)
\* geod.line_length(lons, lats): the length in metres of the line through
\* the points (lons[j], lats[j]).
RECURSIVE line_length(_, _)
line_length(lons, lats) ==
  IF Len(lons) < 2 THEN 0
  ELSE Abs(lons[2] - lons[1]) + Abs(lats[2] - lats[1])
       + line_length(Tail(lons), Tail(lats))

Site1 == [name |-> "site1", position |-> <<300, 104>>]
Site2 == [name |-> "site2", position |-> <<350, 300>>]
SiteLists == { << >>, <<Site1>>, <<Site2>>, <<Site1, Site2>> }
Radii == { 0, 200, DEFAULT_RADIUS }

\* NearSite with the radius itself counted as near.
NearSiteInclusive(prediction, site, radius) ==
  line_length(<<prediction.lon, site.position[1]>>,
              <<prediction.lat, site.position[2]>>) <= radius

NearSite(prediction, site, radius) ==
  line_length(<<prediction.lon, site.position[1]>>,
              <<prediction.lat, site.position[2]>>) < radius

filter_assigned_predictions(preds, sondehub_sites, radius) ==
  SelectSeq(preds, LAMBDA p :
    ~ \E j \in 1..Len(sondehub_sites) : NearSite(p, sondehub_sites[j], radius))

FilterAssignedPredictions ==
  /\ pc = "proximity"
  /\ \E sondehub_sites \in SiteLists, radius \in Radii :
       LET filtered == filter_assigned_predictions(predictions, sondehub_sites, radius)
       IN  /\ call' = [fn |-> "filter_assigned_predictions",
                       sondehub_sites |-> sondehub_sites, radius |-> radius,
                       predictions |-> InputAfterFilter(predictions, filtered)]
           /\ predictions' = filtered
  /\ pc' = "assign"
  /\ UNCHANGED <<file, row, seen, grid, k, top, t, geojson, est, error>>

(***************************************************************************)
(* The MGRS converter on the model planet.  A cell identifier carries its  *)
(* precision, as the length of an MGRS string does.                        *)
(***************************************************************************)
Precisions == 0..5

toMGRS(lat, lon, MGRSPrecision) ==
  [precision |-> MGRSPrecision,
   northing  |-> lat \div Pow10(5 - MGRSPrecision),
   easting   |-> lon \div Pow10(5 - MGRSPrecision)]

\* The south-west corner <<lat, lon>> of a cell.
toLatLon(cell) ==
  <<cell.northing * Pow10(5 - cell.precision),
    cell.easting  * Pow10(5 - cell.precision)>>

(***************************************************************************)
(* assign_grid: one record per pass of the loop, in two steps: the record  *)
(* gets its cell and a cell not yet in the table is entered with count 0   *)
(* (lines 136-153); then the cell's count is incremented (line 155).       *)
(***************************************************************************)
\* The edge length in metres the bounds of a new cell are computed with.
CellSize(MGRSPrecision) == MGRS_SIZE

NewCell(cell, MGRSPrecision) ==
  LET lat_min == toLatLon(cell)[1]
      lon_min == toLatLon(cell)[2]
      x_var   == line_length(<<lon_min, lon_min>>, <<lat_min, lat_min + Degree>>)
      y_var   == line_length(<<lon_min, lon_min + Degree>>, <<lat_min, lat_min>>)
      lat_max == lat_min + DegreesToTicks(CellSize(MGRSPrecision), x_var)
      lon_max == lon_min + DegreesToTicks(CellSize(MGRSPrecision), y_var)
  IN  [id      |-> cell,
       count   |-> 0,
       lat_min |-> RoundDiv(lat_min, 1, Unit6),
       lat_max |-> RoundDiv(lat_max, 1, Unit6),
       lon_min |-> RoundDiv(lon_min, 1, Unit6),
       lon_max |-> RoundDiv(lon_max, 1, Unit6)]

\* IncrementCount that counts the record in every cell of the table.
IncrementEveryCount(table, cell) ==
  [j \in 1..Len(table) |-> [table[j] EXCEPT !.count = @ + 1]]

\* grid[cell]["count"] += 1
IncrementCount(table, cell) ==
  [j \in 1..Len(table) |->
     IF table[j].id = cell THEN [table[j] EXCEPT !.count = @ + 1] ELSE table[j]]

AssignGridCall ==
  /\ pc = "assign"
  /\ \E MGRSPrecision \in Precisions :
       call' = [fn |-> "assign_grid", MGRSPrecision |-> MGRSPrecision]
  /\ grid' = << >>
  /\ k' = 0
  /\ pc' = "assign_loop"
  /\ UNCHANGED <<file, row, seen, predictions, top, t, geojson, est, error>>

AssignGridCell ==
  /\ pc = "assign_loop"
  /\ k < Len(predictions)
  /\ LET prediction == predictions[k + 1]
         cell == toMGRS(prediction.lat, prediction.lon, call.MGRSPrecision)
     IN  /\ predictions' = [predictions EXCEPT ![k + 1].grid = Some(cell)]
         /\ grid' = IF HasKey(grid, cell) THEN grid
                    ELSE Append(grid, NewCell(cell, call.MGRSPrecision))
  /\ pc' = "assign_count"
  /\ UNCHANGED <<file, row, seen, call, k, top, t, geojson, est, error>>

AssignGridCount ==
  /\ pc = "assign_count"
  /\ grid' = IncrementCount(grid, predictions[k + 1].grid[1])
  /\ k' = k + 1
  /\ pc' = "assign_loop"
  /\ UNCHANGED <<file, row, seen, predictions, call, top, t, geojson, est, error>>

AssignGridReturn ==
  /\ pc = "assign_loop"
  /\ k = Len(predictions)
  /\ pc' = "rank"
  /\ UNCHANGED <<file, row, seen, predictions, call, grid, k, top, t, geojson, est, error>>

(***************************************************************************)
(* filter_grids: the (cell, count) pairs at or above the threshold, sorted *)
(* by count, largest first, cut to the first `limit`.                      *)
(***************************************************************************)
Thresholds == { None, Some(1), Some(2), Some(10) }
Limits == { None, Some(0), Some(1), Some(2) }

\* InsertDesc for a sort that is not stable: x goes before its equals.
InsertDescUnstable(sorted, x) ==
  LET before == SelectSeq(sorted, LAMBDA y : y[2] > x[2])
      after  == SelectSeq(sorted, LAMBDA y : y[2] <= x[2])
  IN  before \o <<x>> \o after

\* list.sort(key=count, reverse=True) is stable: x goes after every pair
\* whose count is at least its own.
InsertDesc(sorted, x) ==
  LET before == SelectSeq(sorted, LAMBDA y : y[2] >= x[2])
      after  == SelectSeq(sorted, LAMBDA y : y[2] < x[2])
  IN  before \o <<x>> \o after

RECURSIVE SortDesc(_)
SortDesc(grids) ==
  IF Len(grids) = 0 THEN << >>
  ELSE InsertDesc(SortDesc(SubSeq(grids, 1, Len(grids) - 1)), grids[Len(grids)])

\* grids[:limit]
Slice(grids, limit) ==
  IF limit = None THEN grids
  ELSE IF limit[1] >= 0 THEN SubSeq(grids, 1, Min(limit[1], Len(grids)))
  ELSE SubSeq(grids, 1, Len(grids) + limit[1])

AtLeast(count, threshold) == threshold = None \/ count >= threshold[1]

Pairs(table) == [j \in 1..Len(table) |-> <<table[j].id, table[j].count>>]

filter_grids(table, threshold, limit) ==
  Slice(SortDesc(SelectSeq(Pairs(table), LAMBDA x : AtLeast(x[2], threshold))), limit)

FilterGrids ==
  /\ pc = "rank"
  /\ \E threshold \in Thresholds, limit \in Limits :
       /\ call' = [fn |-> "filter_grids", threshold |-> threshold, limit |-> limit]
       /\ top' = filter_grids(grid, threshold, limit)
  /\ t' = 0
  /\ pc' = "export"
  /\ UNCHANGED <<file, row, seen, predictions, grid, k, geojson, est, error>>

(***************************************************************************)
(* get_grid_estimated_launch: the mean position of the records of a cell.  *)
(***************************************************************************)
InCell(preds, target_grid) == SelectSeq(preds, LAMBDA p : p.grid = Some(target_grid))

RECURSIVE SumLat(_)
SumLat(preds) == IF Len(preds) = 0 THEN 0 ELSE preds[1].lat + SumLat(Tail(preds))

RECURSIVE SumLon(_)
SumLon(preds) == IF Len(preds) = 0 THEN 0 ELSE preds[1].lon + SumLon(Tail(preds))

\* What lat_sum / count does when count is 0.
DivideByZero == [error |-> "ZeroDivisionError"]

get_grid_estimated_launch(target_grid, preds) ==
  LET members == InCell(preds, target_grid)
      count   == Len(members)
  IN  IF count = 0 THEN DivideByZero
      ELSE [error |-> "none",
            value |-> <<RoundDiv(SumLat(members), count, Unit7),
                        RoundDiv(SumLon(members), count, Unit7)>>]

(***************************************************************************)
(* generate_geojson: the features of the target cell.  Coordinates are     *)
(* [lon, lat] pairs.                                                       *)
(***************************************************************************)
PolygonFeature(data) ==
  [type        |-> "Polygon",
   coordinates |-> << <<data.lon_min, data.lat_min>>,
                      <<data.lon_min, data.lat_max>>,
                      <<data.lon_max, data.lat_max>>,
                      <<data.lon_max, data.lat_min>>,
                      <<data.lon_min, data.lat_min>> >>,
   count       |-> data.count]

PointFeature(prediction) ==
  [type        |-> "Point",
   coordinates |-> <<RoundDiv(prediction.lon, 1, Unit7), RoundDiv(prediction.lat, 1, Unit7)>>,
   id          |-> prediction.id,
   serial      |-> prediction.serial]

EstimatedFeature(lat_avg, lon_avg) ==
  [type        |-> "Point",
   coordinates |-> <<lon_avg, lat_avg>>,
   id          |-> "estimated",
   serial      |-> "estimated"]

\* PointFeatures without the test of the record's cell.
PointFeaturesAll(preds, cell) ==
  [j \in 1..Len(preds) |-> PointFeature(preds[j])]

PointFeatures(preds, cell) ==
  LET members == InCell(preds, cell)
  IN  [j \in 1..Len(members) |-> PointFeature(members[j])]

\* The features one pass of the loop over the table adds for the cell
\* `data`; the pass raises when the centroid cannot be computed.
RECURSIVE GeojsonFrom(_, _, _, _)
GeojsonFrom(cells, preds, target_grid, features) ==
  IF Len(cells) = 0 THEN [error |-> "none", features |-> features]
  ELSE IF cells[1].id # target_grid
       THEN GeojsonFrom(Tail(cells), preds, target_grid, features)
  ELSE LET centre == get_grid_estimated_launch(cells[1].id, preds)
       IN  IF centre.error # "none" THEN [error |-> centre.error]
           ELSE GeojsonFrom(Tail(cells), preds, target_grid,
                  features \o <<PolygonFeature(cells[1])>>
                           \o PointFeatures(preds, cells[1].id)
                           \o <<EstimatedFeature(centre.value[1], centre.value[2])>>)

generate_geojson(table, preds, target_grid) ==
  GeojsonFrom(table, preds, target_grid, << >>)

\* __main__, lines 280-281: one artifact per ranked cell.
MainExport ==
  /\ pc = "export"
  /\ t < Len(top)
  /\ LET out == generate_geojson(grid, predictions, top[t + 1][1])
     IN  /\ call' = [fn |-> "generate_geojson", target_grid |-> top[t + 1][1]]
         /\ IF out.error = "none"
            THEN /\ geojson' = out.features
                 /\ t' = t + 1
                 /\ UNCHANGED <<pc, error>>
            ELSE /\ pc' = "crashed"
                 /\ error' = out.error
                 /\ UNCHANGED <<geojson, t>>
  /\ UNCHANGED <<file, row, seen, predictions, grid, k, top, est>>

MainDone ==
  /\ pc = "export"
  /\ t = Len(top)
  /\ pc' = "done"
  /\ UNCHANGED <<file, row, seen, predictions, call, grid, k, top, t, geojson, est, error>>

(***************************************************************************)
(* The estimator and the exporter called on their own, with any target     *)
(* cell, on the records and the table of a finished run.                   *)
(***************************************************************************)
\* A cell no record of the pool lies in.
EmptyCell == toMGRS(0, 0, 5)

Targets == Keys(grid) \cup {EmptyCell}

CallEstimate ==
  /\ pc = "done"
  /\ \E target_grid \in Targets :
       LET out == get_grid_estimated_launch(target_grid, predictions)
       IN  /\ call' = [fn |-> "get_grid_estimated_launch", target_grid |-> target_grid]
           /\ est' = Some(out)
           /\ error' = out.error
           /\ pc' = IF out.error = "none" THEN "done" ELSE "crashed"
  /\ UNCHANGED <<file, row, seen, predictions, grid, k, top, t, geojson>>

CallGenerate ==
  /\ pc = "done"
  /\ \E target_grid \in Targets :
       LET out == generate_geojson(grid, predictions, target_grid)
       IN  /\ call' = [fn |-> "generate_geojson", target_grid |-> target_grid]
           /\ geojson' = IF out.error = "none" THEN out.features ELSE geojson
           /\ error' = out.error
           /\ pc' = IF out.error = "none" THEN "done" ELSE "crashed"
  /\ UNCHANGED <<file, row, seen, predictions, grid, k, top, t, est>>

Next ==
  \/ ReadRowNoSerial
  \/ ReadRowSeen
  \/ ReadRowMalformed
  \/ ReadRowNew
  \/ ReadReturn
  \/ FilterPredictions
  \/ FilterAssignedPredictions
  \/ AssignGridCall
  \/ AssignGridCell
  \/ AssignGridCount
  \/ AssignGridReturn
  \/ FilterGrids
  \/ MainExport
  \/ MainDone
  \/ CallEstimate
  \/ CallGenerate

Spec == Init /\ [][Next]_vars

(***************************************************************************)
(* Properties.                                                             *)
(***************************************************************************)
\* The rows read_predictions has consumed.
RowsRead == SubSeq(file, 1, row)

SerialsOf(rows) == { rows[j].serial[1] : j \in 1..Len(rows) }

FirstWith(rows, s) ==
  CHOOSE j \in 1..Len(rows) :
    /\ rows[j].serial = Some(s)
    /\ \A i \in 1..(j - 1) : rows[i].serial # Some(s)

\* C1: while read_predictions runs and when it returns, the mapping holds as
\* many records as the rows read hold distinct serials, and the record of
\* each serial is the one built from the first row with that serial (its id
\* and the position of its last sample).
C1_FirstSerialWins ==
  pc \in {"read", "area"} =>
    /\ Len(predictions) = Cardinality(SerialsOf(RowsRead))
    /\ \A s \in SerialsOf(RowsRead) :
         LET first == RowsRead[FirstWith(RowsRead, s)]
         IN  \E j \in 1..Len(predictions) :
               /\ predictions[j].serial = s
               /\ predictions[j].id = first._id
               /\ predictions[j].lat = first.data[Len(first.data)].lat[1]
               /\ predictions[j].lon = first.data[Len(first.data)].lon[1]

\* C1 witness: the load has returned from a file in which two different
\* entries share a serial.
C1_Witness ==
  /\ pc = "area"
  /\ Len(file) = MaxRows
  /\ \E i, j \in 1..Len(file) :
       i < j /\ file[i].serial = file[j].serial /\ file[i]._id # file[j]._id

WellFormed(entry) ==
  /\ entry.serial # None
  /\ Len(entry.data) > 0
  /\ entry.data[Len(entry.data)].lat # None
  /\ entry.data[Len(entry.data)].lon # None

\* C5: a malformed entry is skipped on its own: the load never ends in an
\* exception, it reads the file to its end, and when it returns every
\* well-formed entry of the file has its serial among the loaded records.
C5_MalformedEntrySkipped ==
  /\ call.fn = "read_predictions" => pc # "crashed"
  /\ pc = "area" =>
       \A j \in 1..Len(file) :
         WellFormed(file[j]) =>
           \E n \in 1..Len(predictions) : predictions[n].serial = file[j].serial[1]

StrictlyInside(lat, lon, zone) ==
  zone[1] < lat /\ lat < zone[2] /\ zone[3] < lon /\ lon < zone[4]

Retained(prediction) ==
  \E j \in 1..Len(predictions) : predictions[j].id = prediction.id

\* C7: when filter_predictions has returned, a record of its input is absent
\* from the result exactly when some zone holds it strictly inside; a record
\* on a zone's edge and every record under an empty zone list are retained.
C7_AreaFilter ==
  (pc = "proximity" /\ call.fn = "filter_predictions") =>
    \A j \in 1..Len(call.predictions) :
      LET p == call.predictions[j]
      IN  Retained(p) <=>
            ~ \E z \in 1..Len(call.areas) : StrictlyInside(p.lat, p.lon, call.areas[z])

\* C7 witness: one zone, a record strictly inside it that is removed and a
\* record on its edge that is retained.
C7_Witness ==
  /\ pc = "proximity"
  /\ call.fn = "filter_predictions"
  /\ call.areas = <<Zone2>>
  /\ \E i, j \in 1..Len(call.predictions) :
       /\ StrictlyInside(call.predictions[i].lat, call.predictions[i].lon, Zone2)
       /\ ~ Retained(call.predictions[i])
       /\ call.predictions[j].lon = Zone2[4]
       /\ Zone2[1] < call.predictions[j].lat /\ call.predictions[j].lat < Zone2[2]
       /\ Retained(call.predictions[j])

\* Distance in metres between a record and a site.
Distance(prediction, site) ==
  line_length(<<prediction.lon, site.position[1]>>, <<prediction.lat, site.position[2]>>)

\* C6: when filter_assigned_predictions has returned, a record of its input
\* is absent from the result exactly when its distance to some site is
\* strictly below the radius; at the radius exactly it is retained, and at
\* distance 0 with a positive radius it is removed.
C6_ProximityFilter ==
  (pc = "assign" /\ call.fn = "filter_assigned_predictions") =>
    \A j \in 1..Len(call.predictions) :
      LET p == call.predictions[j]
          sites == call.sondehub_sites
      IN  /\ Retained(p) <=>
               ~ \E n \in 1..Len(sites) : Distance(p, sites[n]) < call.radius
          /\ (\A n \in 1..Len(sites) : Distance(p, sites[n]) >= call.radius)
               => Retained(p)
          /\ (call.radius > 0 /\ \E n \in 1..Len(sites) : Distance(p, sites[n]) = 0)
               => ~ Retained(p)

\* C6 witness: a positive radius, a record exactly at the radius from its
\* nearest site that is retained, and a record at distance 0 that is removed.
C6_Witness ==
  /\ pc = "assign"
  /\ call.fn = "filter_assigned_predictions"
  /\ call.radius > 0
  /\ \E i, j \in 1..Len(call.predictions) :
       /\ \E n \in 1..Len(call.sondehub_sites) :
            Distance(call.predictions[i], call.sondehub_sites[n]) = call.radius
       /\ \A n \in 1..Len(call.sondehub_sites) :
            Distance(call.predictions[i], call.sondehub_sites[n]) >= call.radius
       /\ Retained(call.predictions[i])
       /\ \E n \in 1..Len(call.sondehub_sites) :
            Distance(call.predictions[j], call.sondehub_sites[n]) = 0
       /\ ~ Retained(call.predictions[j])

\* What a step taken where a filter is due must do.
FilterStepSideEffectFree ==
  pc \in {"area", "proximity"} =>
    /\ call'.predictions = predictions
    /\ Keys(predictions') \subseteq Keys(predictions)
    /\ \A j \in 1..Len(predictions') :
         predictions'[j] = Lookup(predictions, predictions'[j].id)

\* C9: a step of either filter leaves the mapping it was given as it was,
\* and returns a mapping whose keys are keys of the input and whose records
\* are the input's records for those keys.
C9_FiltersSideEffectFree == [][FilterStepSideEffectFree]_vars

\* C9 witness: a filter has returned a proper, non-empty part of its input.
C9_Witness ==
  /\ pc \in {"proximity", "assign"}
  /\ call.fn \in {"filter_predictions", "filter_assigned_predictions"}
  /\ Len(predictions) > 0
  /\ Len(predictions) < Len(call.predictions)
  /\ Len(call.predictions) = MaxRows

(***************************************************************************)
(* Ranking.                                                                *)
(***************************************************************************)
\* The rows of the grid table that reach the threshold of the call.
Qualifying ==
  { j \in 1..Len(grid) : call.threshold = None \/ grid[j].count >= call.threshold[1] }

\* Row i of the table ranks before row j: a larger count, or the same count
\* and an earlier place in the table.
RanksBefore(i, j) ==
  \/ grid[i].count > grid[j].count
  \/ grid[i].count = grid[j].count /\ i < j

\* The row of the table a ranked pair names.
RowOf(pair) == CHOOSE j \in 1..Len(grid) : grid[j].id = pair[1]

\* C2: when filter_grids has returned, every pair of the result is a cell of
\* the table with its count, at or above the threshold; the pairs are in
\* rank order (count non-increasing, equal counts in table order); and the
\* result is the first `limit` of the qualifying cells in that order (all
\* of them without a limit): every qualifying cell left out ranks after
\* every pair kept.
C2_FilterGrids ==
  (pc = "export" /\ call.fn = "filter_grids") =>
    /\ \A n \in 1..Len(top) :
         /\ \E j \in 1..Len(grid) : grid[j].id = top[n][1]
         /\ RowOf(top[n]) \in Qualifying
         /\ top[n][2] = grid[RowOf(top[n])].count
    /\ \A n, m \in 1..Len(top) : n < m => RanksBefore(RowOf(top[n]), RowOf(top[m]))
    /\ Len(top) = IF call.limit = None THEN Cardinality(Qualifying)
                  ELSE Min(call.limit[1], Cardinality(Qualifying))
    /\ \A j \in Qualifying :
         (\A n \in 1..Len(top) : RowOf(top[n]) # j) =>
           \A n \in 1..Len(top) : RanksBefore(RowOf(top[n]), j)

\* C2 witness: a table whose first cell counts 1 and whose second counts 2,
\* threshold 2 and limit 1: the result is the second cell alone.
C2_Witness ==
  /\ pc = "export"
  /\ call.fn = "filter_grids"
  /\ Len(grid) = 2
  /\ grid[1].count = 1
  /\ grid[2].count = 2
  /\ call.threshold = Some(2)
  /\ call.limit = Some(1)
  /\ top = << <<grid[2].id, 2>> >>

(***************************************************************************)
(* Grid assignment.                                                        *)
(***************************************************************************)
\* The upper bound of a cell along one axis, from its lower bound `low`,
\* for an edge of `size` metres and `var` metres per degree.
UpperBound(low, size, var) == RoundDiv(low + DegreesToTicks(size, var), 1, Unit6)

\* C3: every cell of the table has bounds computed with an edge of
\* 10^(5-p) metres, p being the precision of the assign_grid call (the
\* precision of the cell's identifier).
C3_CellSizeMatchesPrecision ==
  \A j \in 1..Len(grid) :
    LET cell == grid[j].id
        lat_min == toLatLon(cell)[1]
        lon_min == toLatLon(cell)[2]
        x_var == line_length(<<lon_min, lon_min>>, <<lat_min, lat_min + Degree>>)
        y_var == line_length(<<lon_min, lon_min + Degree>>, <<lat_min, lat_min>>)
    IN  /\ grid[j].lat_max = UpperBound(lat_min, Pow10(5 - cell.precision), x_var)
        /\ grid[j].lon_max = UpperBound(lon_min, Pow10(5 - cell.precision), y_var)

\* The records assigned to a cell.
Members(cell) == { j \in 1..Len(predictions) : predictions[j].grid = Some(cell) }

\* assign_grid has returned.
Assigned ==
  \/ pc \in {"rank", "export", "done"}
  \/ pc = "crashed" /\ call.fn \in {"get_grid_estimated_launch", "generate_geojson"}

RECURSIVE SumCounts(_)
SumCounts(table) == IF Len(table) = 0 THEN 0 ELSE table[1].count + SumCounts(Tail(table))

\* No cell leaves the table and no count goes down.
CountsNeverDecrease ==
  \A j \in 1..Len(grid) :
    \E i \in 1..Len(grid') : grid'[i].id = grid[j].id /\ grid'[i].count >= grid[j].count

\* Once assign_grid has returned, each count is the number of records of
\* the cell, and the ranked cells have records.
CountsAreExact ==
  Assigned =>
    /\ \A j \in 1..Len(grid) :
         /\ grid[j].count = Cardinality(Members(grid[j].id))
         /\ grid[j].count >= 1
    /\ SumCounts(grid) = Len(predictions)
    /\ \A n \in 1..Len(top) : Cardinality(Members(top[n][1])) >= 1
    /\ (call.fn = "generate_geojson" /\ HasKey(grid, call.target_grid)) => pc # "crashed"

\* C10: in every step a cell's count never decreases; and once assign_grid
\* has returned every cell's count is the number of records assigned to it,
\* so each is at least 1 and they sum to the number of records, and every
\* ranked cell has a record when __main__ exports it (the export of a cell
\* of the table never raises).
C10_CountAccounting == [][CountsNeverDecrease]_vars /\ []CountsAreExact

\* C10 witness: a finished run over three records in two cells, both exported.
C10_Witness ==
  /\ pc = "done"
  /\ call.fn = "generate_geojson"
  /\ Len(predictions) = 3
  /\ Len(grid) = 2
  /\ grid[2].count = 2
  /\ t = 2

(***************************************************************************)
(* Centroid and export.                                                    *)
(***************************************************************************)
\* C4: get_grid_estimated_launch on a cell without records ends in the
\* designated EmptyCellError and gives no position; on a cell with records
\* it gives the mean of their lat and of their lon, rounded to 7 decimals.
C4_EmptyCellError ==
  call.fn = "get_grid_estimated_launch" =>
    IF Members(call.target_grid) = {}
    THEN est = Some([error |-> "EmptyCellError"])
    ELSE LET n == Cardinality(Members(call.target_grid))
             members == InCell(predictions, call.target_grid)
         IN  est = Some([error |-> "none",
                         value |-> <<RoundDiv(SumLat(members), n, Unit7),
                                     RoundDiv(SumLon(members), n, Unit7)>>])

\* C8: when generate_geojson has returned for a target cell of the table,
\* the collection is the cell's polygon (the closed ring SW, NW, NE, SE, SW
\* of its bounds, with its count), then one point per record assigned to
\* the target cell and none for any other record, then the one point whose
\* properties are "estimated": count + 2 features.
C8_FeatureCollection ==
  (call.fn = "generate_geojson" /\ pc # "crashed" /\ HasKey(grid, call.target_grid)) =>
    LET data == Lookup(grid, call.target_grid)
        n == Len(geojson)
    IN  /\ n = data.count + 2
        /\ geojson[1].type = "Polygon"
        /\ geojson[1].count = data.count
        /\ geojson[1].coordinates =
             << <<data.lon_min, data.lat_min>>, <<data.lon_min, data.lat_max>>,
                <<data.lon_max, data.lat_max>>, <<data.lon_max, data.lat_min>>,
                <<data.lon_min, data.lat_min>> >>
        /\ \A i \in 2..n : geojson[i].type = "Point"
        /\ geojson[n].id = "estimated" /\ geojson[n].serial = "estimated"
        /\ \A i \in 2..(n - 1) :
             \E j \in Members(call.target_grid) :
               geojson[i].id = predictions[j].id /\ geojson[i].serial = predictions[j].serial
        /\ \A j \in Members(call.target_grid) :
             Cardinality({ i \in 2..(n - 1) : geojson[i].id = predictions[j].id }) = 1

\* C8 witness: an export of a cell with two records while a third record
\* lies in another cell.
C8_Witness ==
  /\ call.fn = "generate_geojson"
  /\ pc # "crashed"
  /\ HasKey(grid, call.target_grid)
  /\ Lookup(grid, call.target_grid).count = 2
  /\ Len(predictions) = 3
  /\ Len(geojson) = 4
====
